---- MODULE Spec2Model ----
(***************************************************************************)
(* A model of fedify's outbound delivery (src/src/federation/send.ts:      *)
(* extractInboxes, sendActivity) and of the property accessors emitted by  *)
(* src/src/codegen/property.ts (identity accessors, resolving accessors,   *)
(* #fetch<Singular>, #<singular>_fromJsonLd).                              *)
(***************************************************************************)
EXTENDS Integers, Sequences, FiniteSets, TLC

\* ------------------------------------------------------------------------
\* Bounds of the model
\* ------------------------------------------------------------------------

\* longest recipient list handed to extractInboxes
MaxRecipients == 2

\* longest key list handed to sendActivity
MaxKeys == 3

\* most values a resolvable property holds
MaxSlots == 2

\* ------------------------------------------------------------------------
\* URLs: a URL is its origin (scheme+host+port) and the rest of it
\* ------------------------------------------------------------------------

\* the absent URL (null / undefined)
NoUrl == [origin |-> "", path |-> ""]

Origins == {"https://a.example", "https://b.example"}

\* WHATWG URL.href: the serialisation of the whole URL
Href(u) == u.origin \o u.path

\* WHATWG URL.origin
OriginOf(u) == u.origin

RangeOf(s) == {s[i] : i \in DOMAIN s}

\* ========================================================================
\* extractInboxes (send.ts:42-62)
\* ========================================================================

VARIABLES
  exParams,     \* the ExtractInboxesParameters of the call
  exDone,       \* whether extractInboxes has returned
  exResult      \* the returned Record<string, Set<string>>

\* the inboxes recipients may expose
PersonalInboxes == [origin : Origins, path : {"/u/inbox", "/v/inbox"}]
SharedInboxes == [origin : Origins, path : {"/inbox"}]
ActorIds == [origin : {"https://a.example"}, path : {"/u", "/v"}]

\* Recipient (vocab/actor.ts): id, inboxId and endpoints?.sharedInbox
Recipients ==
  [id : ActorIds \cup {NoUrl},
   inboxId : PersonalInboxes \cup {NoUrl},
   sharedInbox : SharedInboxes \cup {NoUrl}]

\* excludeBaseUris?: URL[]   (defined = FALSE is the omitted parameter)
ExcludeLists ==
  { [defined |-> FALSE, uris |-> <<>>],
    [defined |-> TRUE, uris |-> <<>>],
    [defined |-> TRUE, uris |-> << [origin |-> "https://a.example", path |-> "/"] >>],
    [defined |-> TRUE, uris |-> << [origin |-> "https://b.example", path |-> "/inbox"],
                                   [origin |-> "https://b.example", path |-> "/x"] >>] }

SeqsUpTo(S, n) == UNION { [1..k -> S] : k \in 0..n }

\* send.ts:47-49, with every recipient contributing under its personal inbox
ChosenInboxPersonalOnly(recipient, preferSharedInbox) == recipient.inboxId

\* send.ts:47-49
ChosenInbox(recipient, preferSharedInbox) ==
  IF preferSharedInbox
    THEN IF recipient.sharedInbox # NoUrl
           THEN recipient.sharedInbox
           ELSE recipient.inboxId
    ELSE recipient.inboxId

\* send.ts:52-53, comparing whole URLs instead of origins
IsExcludedByHref(excludeBaseUris, inbox) ==
  /\ excludeBaseUris.defined
  /\ \E k \in DOMAIN excludeBaseUris.uris :
       Href(excludeBaseUris.uris[k]) = Href(inbox)

\* send.ts:52-53
IsExcluded(excludeBaseUris, inbox) ==
  /\ excludeBaseUris.defined
  /\ \E k \in DOMAIN excludeBaseUris.uris :
       OriginOf(excludeBaseUris.uris[k]) = OriginOf(inbox)

\* Set.prototype.add on an insertion-ordered Set
SetAdd(set, value) ==
  IF value \in RangeOf(set) THEN set ELSE Append(set, value)

\* send.ts:57-58, the map keyed by the inbox's origin
AddToInboxesByOrigin(inboxes, inbox, id) ==
  LET key == OriginOf(inbox)
      old == IF key \in DOMAIN inboxes THEN inboxes[key] ELSE <<>>
  IN  [k \in DOMAIN inboxes \cup {key} |->
         IF k = key THEN SetAdd(old, Href(id)) ELSE inboxes[k]]

\* send.ts:57-58
AddToInboxes(inboxes, inbox, id) ==
  LET key == Href(inbox)
      old == IF key \in DOMAIN inboxes THEN inboxes[key] ELSE <<>>
  IN  [k \in DOMAIN inboxes \cup {key} |->
         IF k = key THEN SetAdd(old, Href(id)) ELSE inboxes[k]]

\* the empty Record
EmptyInboxes == [k \in {} |-> <<>>]

\* send.ts:46-60, the loop from recipient i on
RECURSIVE ExtractLoop(_, _, _, _, _)
ExtractLoop(recipients, i, preferSharedInbox, excludeBaseUris, inboxes) ==
  IF i > Len(recipients) THEN inboxes
  ELSE
    LET recipient == recipients[i]
        inbox == ChosenInbox(recipient, preferSharedInbox)
    IN  IF inbox # NoUrl /\ recipient.id # NoUrl
          THEN IF IsExcluded(excludeBaseUris, inbox)
                 THEN ExtractLoop(recipients, i + 1, preferSharedInbox,
                                  excludeBaseUris, inboxes)
                 ELSE ExtractLoop(recipients, i + 1, preferSharedInbox,
                                  excludeBaseUris,
                                  AddToInboxes(inboxes, inbox, recipient.id))
          ELSE ExtractLoop(recipients, i + 1, preferSharedInbox,
                           excludeBaseUris, inboxes)

\* send.ts:42-62
extractInboxes(params) ==
  ExtractLoop(params.recipients, 1, params.preferSharedInbox,
              params.excludeBaseUris, EmptyInboxes)

exVars == <<exParams, exDone, exResult>>

\* one call of extractInboxes
ExtractCall ==
  /\ ~exDone
  /\ exResult' = extractInboxes(exParams)
  /\ exDone' = TRUE
  /\ UNCHANGED exParams

\* ========================================================================
\* sendActivity (send.ts:125-248)
\* ========================================================================

VARIABLES
  activity,      \* the activity parameter (reassigned by signObject)
  keys,          \* the keys parameter
  inbox,         \* the inbox parameter
  headers,       \* the headers parameter
  pc,            \* where the call stands
  ki,            \* position of the for..of loop over keys
  proofCreated,  \* send.ts:147
  rsaKey,        \* send.ts:148
  jsonLd,        \* send.ts:163
  request,       \* send.ts:202
  response,      \* send.ts:224
  thrown,        \* what the call rejected with
  events         \* every collaborator call and log record, in order

\* CryptoKey.algorithm.name
RSA == "RSASSA-PKCS1-v1_5"
ED == "Ed25519"
Algorithms == {RSA, ED, "ECDSA"}

\* a SenderKeyPair: privateKey.algorithm.name, privateKey.type and keyId
\* (the keyId of the k-th pair of a list is k)
KeyKinds == [alg : Algorithms, type : {"private", "public"}]
NoKey == [alg |-> "", type |-> "", keyId |-> 0]

KeyLists ==
  { [i \in DOMAIN ks |-> [alg |-> ks[i].alg, type |-> ks[i].type, keyId |-> i]] :
      ks \in SeqsUpTo(KeyKinds, MaxKeys) }

ActivityId == [origin |-> "https://a.example", path |-> "/activity/1"]
ActorId == [origin |-> "https://a.example", path |-> "/u"]
Inboxes == { [origin |-> "https://b.example", path |-> "/inbox"],
             [origin |-> "https://b.example", path |-> "/v/inbox"] }

\* Activity: id, actorId and the proofs attached so far (the keyId of each)
Activities ==
  [id : {NoUrl, ActivityId}, actorId : {NoUrl, ActorId}, proofs : {<<>>}]

\* Headers as a set of <<name, value>>
CallerHeaders ==
  { {}, { <<"content-type", "text/plain">>, <<"x-extra", "1">> } }

\* Headers.prototype.set
HeadersSet(h, name, value) ==
  {p \in h : p[1] # name} \cup {<<name, value>>}

NoDoc == [id |-> "", actor |-> "", proofs |-> <<>>, signature |-> 0, made |-> FALSE]
NoRequest ==
  [url |-> "", method |-> "", headers |-> {}, body |-> NoDoc, signedBy |-> 0]
NoResponse == [status |-> 0, body |-> "", readable |-> FALSE]
NoError == [kind |-> "", activityId |-> "", inbox |-> "", status |-> 0, text |-> ""]

\* the statuses and bodies the destination answers with
Statuses == {200, 204, 299, 300, 404, 500}
Responses == [status : Statuses, body : {"boom"}, readable : BOOLEAN]

\* send.ts:225, only 200 taken for success
ResponseOkOnly200(r) == r.status = 200

\* send.ts:225: Response.ok
ResponseOk(r) == r.status >= 200 /\ r.status <= 299

\* a collaborator call or a log record: what, with which keyId, about what
Event(op, key, arg) ==
  [op |-> op, key |-> key, arg |-> arg, status |-> 0, text |-> ""]

\* validateCryptoKey(privateKey, "private") of sig/key.ts: the key has the
\* private purpose and a supported algorithm
validateCryptoKey(key) ==
  /\ key.type = "private"
  /\ key.alg \in {RSA, ED}

\* signObject of sig/proof.ts: the activity with one more proof, made with key
signObject(act, key) == [act EXCEPT !.proofs = Append(@, key.keyId)]

\* Activity.toJsonLd({format: "compact"})
toJsonLd(act) ==
  [id |-> Href(act.id), actor |-> Href(act.actorId), proofs |-> act.proofs,
   signature |-> 0, made |-> TRUE]

\* signJsonLd of sig/ld.ts: the document with an embedded signature by key
signJsonLd(doc, key) == [doc EXCEPT !.signature = key.keyId]

\* signRequest of sig/http.ts: the request with signature headers by key
signRequest(req, key) == [req EXCEPT !.signedBy = key.keyId]

sendVars ==
  <<activity, keys, inbox, headers, pc, ki, proofCreated, rsaKey, jsonLd,
    request, response, thrown, events>>

Throw(kind, text) ==
  /\ pc' = "failed"
  /\ thrown' = [NoError EXCEPT !.kind = kind, !.text = text]

\* send.ts:136-148, with the check of the key list left out
SendStartNoKeyCheck ==
  /\ pc = "start"
  /\ IF activity.id = NoUrl
       THEN Throw("TypeError", "The activity to send must have an id.")
     ELSE IF activity.actorId = NoUrl
       THEN Throw("TypeError",
                  "The activity to send must have at least one actor property.")
     ELSE /\ pc' = "keys"
          /\ UNCHANGED thrown
  /\ UNCHANGED <<activity, keys, inbox, headers, ki, proofCreated, rsaKey,
                 jsonLd, request, response, events>>

\* send.ts:136-148
SendStart ==
  /\ pc = "start"
  /\ IF activity.id = NoUrl
       THEN Throw("TypeError", "The activity to send must have an id.")
     ELSE IF activity.actorId = NoUrl
       THEN Throw("TypeError",
                  "The activity to send must have at least one actor property.")
     ELSE IF Len(keys) < 1
       THEN Throw("TypeError", "The keys must not be empty.")
     ELSE /\ pc' = "keys"
          /\ UNCHANGED thrown
  /\ UNCHANGED <<activity, keys, inbox, headers, ki, proofCreated, rsaKey,
                 jsonLd, request, response, events>>

\* send.ts:151, every RSA key taking the place of the one captured before
IsRsaSignerLatest(current, key) == key.alg = RSA

\* send.ts:151: the key becomes the RSA signer
IsRsaSigner(current, key) == current = NoKey /\ key.alg = RSA

\* send.ts:156-159, each proof attached to the activity as it was passed in
AttachProofToOriginal(act, key) ==
  signObject([act EXCEPT !.proofs = <<>>], key)

\* send.ts:156-159: the activity the loop goes on with
AttachProof(act, key) == signObject(act, key)

\* send.ts:149-162, one iteration of the loop
KeyStep ==
  /\ pc = "keys"
  /\ ki <= Len(keys)
  /\ LET key == keys[ki]
         validated == Append(events, Event("validateCryptoKey", key.keyId, ""))
     IN  IF ~validateCryptoKey(key)
           THEN /\ Throw("TypeError", "validateCryptoKey")
                /\ events' = validated
                /\ UNCHANGED <<activity, ki, proofCreated, rsaKey>>
         ELSE IF IsRsaSigner(rsaKey, key)
           THEN /\ rsaKey' = key
                /\ ki' = ki + 1
                /\ events' = validated
                /\ UNCHANGED <<activity, proofCreated, pc, thrown>>
         ELSE IF key.alg = ED
           THEN \E ok \in BOOLEAN :
                  /\ events' = Append(validated, Event("signObject", key.keyId, ""))
                  /\ IF ok
                       THEN /\ activity' = AttachProof(activity, key)
                            /\ proofCreated' = TRUE
                            /\ ki' = ki + 1
                            /\ UNCHANGED <<pc, thrown>>
                       ELSE /\ Throw("Error", "signObject")
                            /\ UNCHANGED <<activity, proofCreated, ki>>
                  /\ UNCHANGED rsaKey
         ELSE /\ ki' = ki + 1
              /\ events' = validated
              /\ UNCHANGED <<activity, proofCreated, rsaKey, pc, thrown>>
  /\ UNCHANGED <<keys, inbox, headers, jsonLd, request, response>>

\* send.ts:163-166
Serialize ==
  /\ pc = "keys"
  /\ ki > Len(keys)
  /\ events' = Append(events, Event("toJsonLd", 0, ""))
  /\ \E ok \in BOOLEAN :
       IF ok
         THEN /\ jsonLd' = toJsonLd(activity)
              /\ pc' = "ldsign"
              /\ UNCHANGED thrown
         ELSE /\ Throw("Error", "toJsonLd")
              /\ UNCHANGED jsonLd
  /\ UNCHANGED <<activity, keys, inbox, headers, ki, proofCreated, rsaKey,
                 request, response>>

\* send.ts:167-185, the signature made over a document serialized from the
\* activity without its proofs
LdSignWithoutProofs ==
  /\ pc = "ldsign"
  /\ IF rsaKey = NoKey
       THEN /\ events' = Append(events, Event("logger.warn", 0, "Linked Data signature"))
            /\ pc' = "request"
            /\ UNCHANGED <<jsonLd, thrown>>
       ELSE \E ok \in BOOLEAN :
              /\ events' = Append(events, Event("signJsonLd", rsaKey.keyId, ""))
              /\ IF ok
                   THEN /\ jsonLd' = signJsonLd(
                                        toJsonLd([activity EXCEPT !.proofs = <<>>]),
                                        rsaKey)
                        /\ pc' = "request"
                        /\ UNCHANGED thrown
                   ELSE /\ Throw("Error", "signJsonLd")
                        /\ UNCHANGED jsonLd
  /\ UNCHANGED <<activity, keys, inbox, headers, ki, proofCreated, rsaKey,
                 request, response>>

\* send.ts:167-185
LdSign ==
  /\ pc = "ldsign"
  /\ IF rsaKey = NoKey
       THEN /\ events' = Append(events, Event("logger.warn", 0, "Linked Data signature"))
            /\ pc' = "request"
            /\ UNCHANGED <<jsonLd, thrown>>
       ELSE \E ok \in BOOLEAN :
              /\ events' = Append(events, Event("signJsonLd", rsaKey.keyId, ""))
              /\ IF ok
                   THEN /\ jsonLd' = signJsonLd(jsonLd, rsaKey)
                        /\ pc' = "request"
                        /\ UNCHANGED thrown
                   ELSE /\ Throw("Error", "signJsonLd")
                        /\ UNCHANGED jsonLd
  /\ UNCHANGED <<activity, keys, inbox, headers, ki, proofCreated, rsaKey,
                 request, response>>

\* send.ts:186-206, the warning about the proof only given when there is no
\* RSA signer either
BuildRequestWarnWithoutSigner ==
  /\ pc = "request"
  /\ events' = IF ~proofCreated /\ rsaKey = NoKey
                 THEN Append(events, Event("logger.warn", 0, "proof"))
                 ELSE events
  /\ headers' = HeadersSet(headers, "content-type", "application/activity+json")
  /\ request' = [url |-> Href(inbox), method |-> "POST", headers |-> headers',
                 body |-> jsonLd, signedBy |-> 0]
  /\ pc' = "httpsign"
  /\ UNCHANGED <<activity, keys, inbox, ki, proofCreated, rsaKey, jsonLd,
                 response, thrown>>

\* send.ts:186-206; the body is JSON.stringify(jsonLd), the text of the document
BuildRequest ==
  /\ pc = "request"
  /\ events' = IF ~proofCreated
                 THEN Append(events, Event("logger.warn", 0, "proof"))
                 ELSE events
  /\ headers' = HeadersSet(headers, "content-type", "application/activity+json")
  /\ request' = [url |-> Href(inbox), method |-> "POST", headers |-> headers',
                 body |-> jsonLd, signedBy |-> 0]
  /\ pc' = "httpsign"
  /\ UNCHANGED <<activity, keys, inbox, ki, proofCreated, rsaKey, jsonLd,
                 response, thrown>>

\* send.ts:207-223, the signed request not assigned back
HttpSignDiscarded ==
  /\ pc = "httpsign"
  /\ IF rsaKey = NoKey
       THEN /\ events' = Append(events, Event("logger.warn", 0, "request signature"))
            /\ pc' = "fetch"
            /\ UNCHANGED <<request, thrown>>
       ELSE \E ok \in BOOLEAN :
              /\ events' = Append(events, Event("signRequest", rsaKey.keyId, ""))
              /\ IF ok
                   THEN /\ pc' = "fetch"
                        /\ UNCHANGED <<request, thrown>>
                   ELSE /\ Throw("Error", "signRequest")
                        /\ UNCHANGED request
  /\ UNCHANGED <<activity, keys, inbox, headers, ki, proofCreated, rsaKey,
                 jsonLd, response>>

\* send.ts:207-223
HttpSign ==
  /\ pc = "httpsign"
  /\ IF rsaKey = NoKey
       THEN /\ events' = Append(events, Event("logger.warn", 0, "request signature"))
            /\ pc' = "fetch"
            /\ UNCHANGED <<request, thrown>>
       ELSE \E ok \in BOOLEAN :
              /\ events' = Append(events, Event("signRequest", rsaKey.keyId, ""))
              /\ IF ok
                   THEN /\ request' = signRequest(request, rsaKey)
                        /\ pc' = "fetch"
                        /\ UNCHANGED thrown
                   ELSE /\ Throw("Error", "signRequest")
                        /\ UNCHANGED request
  /\ UNCHANGED <<activity, keys, inbox, headers, ki, proofCreated, rsaKey,
                 jsonLd, response>>

\* send.ts:224: fetch answers with a response, or rejects (network failure)
Fetch ==
  /\ pc = "fetch"
  /\ events' = Append(events, Event("fetch", request.signedBy, request.url))
  /\ \/ \E r \in Responses :
          /\ response' = r
          /\ pc' = "response"
          /\ UNCHANGED thrown
     \/ /\ Throw("TypeError", "fetch")
        /\ UNCHANGED response
  /\ UNCHANGED <<activity, keys, inbox, headers, ki, proofCreated, rsaKey,
                 jsonLd, request>>

\* send.ts:227-231
ResponseText(r) == IF r.readable THEN r.body ELSE ""

\* send.ts:225-247, retrying the request after a failure
RespondRetrying ==
  /\ pc = "response"
  /\ IF ResponseOk(response)
       THEN /\ pc' = "done"
            /\ UNCHANGED <<thrown, events>>
       ELSE /\ pc' = "fetch"
            /\ UNCHANGED <<thrown, events>>
  /\ UNCHANGED <<activity, keys, inbox, headers, ki, proofCreated, rsaKey,
                 jsonLd, request, response>>

\* send.ts:225-247
Respond ==
  /\ pc = "response"
  /\ IF ResponseOk(response)
       THEN /\ pc' = "done"
            /\ UNCHANGED <<thrown, events>>
       ELSE LET error == ResponseText(response)
            IN  /\ events' =
                     Append(events,
                            [op |-> "logger.error", key |-> 0,
                             arg |-> Href(activity.id) \o " " \o Href(inbox),
                             status |-> response.status, text |-> error])
                /\ pc' = "failed"
                /\ thrown' = [kind |-> "Error", activityId |-> Href(activity.id),
                              inbox |-> Href(inbox), status |-> response.status,
                              text |-> error]
  /\ UNCHANGED <<activity, keys, inbox, headers, ki, proofCreated, rsaKey,
                 jsonLd, request, response>>

\* ========================================================================
\* The accessors of a resolvable property (property.ts:52-273), as emitted
\* into a vocabulary class: <singular>Id, <singular>Ids, get<Singular>,
\* get<Plural>, #fetch<Singular> and #<singular>_fromJsonLd
\* ========================================================================

VARIABLES
  slots,         \* this.<field>: the values of the property
  cachedJsonLd,  \* this._cachedJsonLd, as far as the accessors look at it
  calls,         \* the accessor call of each caller
  loaderCalls,   \* the invocations of the documentLoader by each call, in order
  spans          \* the spans started by #fetch<Singular> in each call, in order

\* the callers that hold the object
Callers == {1, 2}

\* property.range, in declared order (each a type of `types`)
Range == <<"Person", "Service">>

\* a value of the property or of an accessor: a URL, an object (with its
\* identity oid, its id and its type) or null
Ref(u) == [kind |-> "url", url |-> u, oid |-> 0, id |-> "", type |-> ""]
Obj(oid, id, type) == [kind |-> "obj", url |-> "", oid |-> oid, id |-> id, type |-> type]
NullValue == [kind |-> "null", url |-> "", oid |-> 0, id |-> "", type |-> ""]

\* the URL held by the k-th value when it is a reference
SlotUrl(k) == IF k = 1 THEN "https://r.example/1"
              ELSE IF k = 2 THEN "https://r.example/2"
              ELSE "https://r.example/n"

\* a JSON-LD document: its @id ("" when it has none) and what the fromJsonLd
\* of each candidate type makes of it ("ok", "TypeError" or "Error")
GoodDoc == [id |-> "https://r.example/o", parse |-> <<"ok", "ok">>]
SecondTypeDoc == [id |-> "", parse |-> <<"TypeError", "ok">>]
MismatchDoc == [id |-> "https://r.example/o", parse |-> <<"TypeError", "TypeError">>]
NoDocument == [id |-> "", parse |-> <<>>]

\* the document of the object that a URL names: the one at the URL of the
\* second value is of the second type of the range and bears no @id
DocumentAt(url) == IF url = SlotUrl(2) THEN SecondTypeDoc ELSE GoodDoc

\* what the documentLoader does with a URL: a RemoteDocument (the document
\* of the object, or one that no type of the range accepts), or a rejection
LoaderResults(url) ==
  { [error |-> "", document |-> d] : d \in {DocumentAt(url), MismatchDoc} }
    \cup { [error |-> e, document |-> NoDocument] : e \in {"FetchError", "AbortError"} }

\* an element of the property in the cached document: ctx says that it is an
\* object holding "@context"
NoFragment == [ctx |-> FALSE, document |-> NoDocument]
GoodFragment == [ctx |-> TRUE, document |-> GoodDoc]
MismatchFragment == [ctx |-> TRUE, document |-> MismatchDoc]

\* present: _cachedJsonLd is an object holding "@context" and the property's
\* compactName; isArray and items: the value it holds there
NoCachedJsonLd == [present |-> FALSE, isArray |-> FALSE, items |-> <<>>]
CachedJsonLds(n) ==
  {NoCachedJsonLd}
    \cup {[present |-> TRUE, isArray |-> FALSE, items |-> <<f>>] :
            f \in {GoodFragment, MismatchFragment}}
    \cup {[present |-> TRUE, isArray |-> TRUE, items |-> fs] :
            fs \in [1..n -> {NoFragment, GoodFragment}]}

\* the values a class instance holds: references, or objects given to it
SlotLists ==
  UNION { { [k \in 1..n |-> IF k \in inl THEN Obj(k, SlotUrl(k), Range[1])
                                        ELSE Ref(SlotUrl(k))] :
              inl \in SUBSET (1..n) } : n \in 0..MaxSlots }

Getters == {"getSingular", "getPlural"}
IdAccessors == {"singularId", "singularIds"}

NoCall ==
  [op |-> "", suppressError |-> FALSE, pc |-> "idle", i |-> 0,
   document |-> NoDocument, fetched |-> NullValue, error |-> "",
   out |-> <<>>, raised |-> "", after |-> FALSE]

Produced(i, v) == [i |-> i, val |-> v]

\* the identity of the object that the call of c constructs for the i-th value
\* (the objects an instance is created with have the identities 1..MaxSlots)
NewOid(c, i) == 10 * c + i

\* property.ts:123-155: #<singular>_fromJsonLd from candidate k on
RECURSIVE TryCandidates(_, _)
TryCandidates(document, k) ==
  IF k > Len(Range)
    THEN [ok |-> FALSE, type |-> "", error |-> "TypeError", tried |-> Len(Range)]
  ELSE IF document.parse[k] = "ok"
    THEN [ok |-> TRUE, type |-> Range[k], error |-> "", tried |-> k]
  ELSE IF document.parse[k] = "TypeError"
    THEN TryCandidates(document, k + 1)
  ELSE [ok |-> FALSE, type |-> "", error |-> document.parse[k], tried |-> k]

\* property.ts:123-155
fromJsonLd(document) == TryCandidates(document, 1)

\* property.ts:194-203 and 252-261: the element of the cached document at
\* the place of the i-th value (prop[i - 1], or prop when it is no array)
CachedFragment(i) ==
  IF ~cachedJsonLd.present THEN NoFragment
  ELSE IF cachedJsonLd.isArray
    THEN IF i <= Len(cachedJsonLd.items) THEN cachedJsonLd.items[i] ELSE NoFragment
  ELSE cachedJsonLd.items[1]

\* property.ts:165-170, answering for references only
singularIdOfReference ==
  IF Len(slots) < 1 THEN NullValue
  ELSE IF slots[1].kind = "url" THEN slots[1]
  ELSE NullValue

\* property.ts:165-170
singularId ==
  IF Len(slots) < 1 THEN NullValue
  ELSE IF slots[1].kind = "url" THEN slots[1]
  ELSE IF slots[1].id = "" THEN NullValue
  ELSE Ref(slots[1].id)

IsNotNull(v) == v.kind # "null"

\* property.ts:221-225
singularIds ==
  SelectSeq([k \in DOMAIN slots |->
               IF slots[k].kind = "url" THEN slots[k]
               ELSE IF slots[k].id = "" THEN NullValue
               ELSE Ref(slots[k].id)],
            IsNotNull)

\* a span as tracer.startActiveSpan hands it to #fetch<Singular>
NewSpan(i, url) ==
  [i |-> i, url |-> url, status |-> "UNSET", message |-> "",
   ends |-> 0, objectId |-> "", objectType |-> ""]

\* what a call does when it returns or has yielded a value
AfterValue(call) == IF call.op = "getSingular" THEN "done" ELSE "yielded"

\* property.ts:182-191 and 237-270: a call looks at the i-th value: it
\* invokes the loader for a reference (184-186, 240-243), parses the cached
\* fragment of an object (194-205, 252-264) or hands out the object (210, 269);
\* lc and sp are the loader invocations and the spans of the call so far
Visit(call, i, lc, sp) ==
  IF i > Len(slots)
    THEN [call |-> [call EXCEPT !.pc = "done", !.i = i,
                      !.out = IF call.op = "getSingular"
                                THEN Append(@, Produced(i, NullValue)) ELSE @],
          loaderCalls |-> lc, spans |-> sp]
  ELSE IF slots[i].kind = "url"
    THEN [call |-> [call EXCEPT !.pc = "loading", !.i = i],
          loaderCalls |-> Append(lc, [i |-> i, url |-> slots[i].url]),
          spans |-> Append(sp, NewSpan(i, slots[i].url))]
  ELSE IF CachedFragment(i).ctx
    THEN [call |-> [call EXCEPT !.pc = "cachedParsing", !.i = i,
                      !.document = CachedFragment(i).document],
          loaderCalls |-> lc, spans |-> sp]
  ELSE [call |-> [call EXCEPT !.pc = AfterValue(call), !.i = i,
                    !.out = Append(@, Produced(i, slots[i]))],
        loaderCalls |-> lc, spans |-> sp]

\* property.ts:187 and 244, get<Plural> ending at the first value without
\* an object
SkipStops(call, lc, sp) ==
  [call |-> [call EXCEPT !.pc = "done",
               !.out = IF call.op = "getSingular"
                         THEN Append(@, Produced(call.i, NullValue)) ELSE @],
   loaderCalls |-> lc, spans |-> sp]

\* property.ts:187 and 244: no value from #fetch<Singular>: get<Singular>
\* returns null, get<Plural> continues with the next value
Skip(call, lc, sp) ==
  IF call.op = "getSingular"
    THEN [call |-> [call EXCEPT !.pc = "done",
                      !.out = Append(@, Produced(call.i, NullValue))],
          loaderCalls |-> lc, spans |-> sp]
    ELSE Visit(call, call.i + 1, lc, sp)

rsVars == <<slots, cachedJsonLd, calls, loaderCalls, spans>>

\* a caller calls an accessor (property.ts:165, 174, 221, 229); callers are
\* numbered in the order of their calls
Begin(c) ==
  /\ calls[c].pc = "idle"
  /\ \A d \in Callers : d < c => calls[d].pc # "idle"
  /\ \E op \in Getters \cup IdAccessors, suppressError \in BOOLEAN :
       /\ op \in IdAccessors => ~suppressError
       /\ LET call == [NoCall EXCEPT !.op = op, !.suppressError = suppressError,
                         !.after = \E d \in Callers \ {c} : calls[d].pc = "done"]
          IN  IF op = "singularId"
                THEN /\ calls' = [calls EXCEPT ![c] =
                           [call EXCEPT !.pc = "done",
                              !.out = <<Produced(1, singularId)>>]]
                     /\ UNCHANGED <<loaderCalls, spans>>
              ELSE IF op = "singularIds"
                THEN /\ calls' = [calls EXCEPT ![c] =
                           [call EXCEPT !.pc = "done",
                              !.out = [k \in DOMAIN singularIds |->
                                         Produced(k, singularIds[k])]]]
                     /\ UNCHANGED <<loaderCalls, spans>>
              ELSE LET next == Visit(call, 1, loaderCalls[c], spans[c])
                   IN  /\ calls' = [calls EXCEPT ![c] = next.call]
                       /\ loaderCalls' = [loaderCalls EXCEPT ![c] = next.loaderCalls]
                       /\ spans' = [spans EXCEPT ![c] = next.spans]
  /\ UNCHANGED <<slots, cachedJsonLd>>

\* property.ts:74-91: the documentLoader settles; on a rejection
\* #fetch<Singular> ends the span and settles with null or with the
\* rejection, which the accessor gets when its await resumes
LoaderSettle(c) ==
  /\ calls[c].pc = "loading"
  /\ \E r \in LoaderResults(loaderCalls[c][Len(loaderCalls[c])].url) :
       IF r.error # ""
         THEN /\ spans' = [spans EXCEPT ![c][Len(spans[c])] =
                    [@ EXCEPT !.status = "ERROR", !.message = r.error,
                              !.ends = @ + 1]]
              /\ calls' = [calls EXCEPT ![c] =
                    [@ EXCEPT !.pc = "fetched", !.fetched = NullValue,
                              !.error = IF calls[c].suppressError
                                          THEN "" ELSE r.error]]
         ELSE /\ calls' = [calls EXCEPT ![c] =
                    [@ EXCEPT !.pc = "parsing", !.document = r.document]]
              /\ UNCHANGED spans
  /\ UNCHANGED <<slots, cachedJsonLd, loaderCalls>>

\* property.ts:92-119: the parse of the loaded document settles;
\* #fetch<Singular> ends the span and settles with the object, with null or
\* with the failure, which the accessor gets when its await resumes
ParseSettle(c) ==
  /\ calls[c].pc = "parsing"
  /\ LET call == calls[c]
         r == fromJsonLd(call.document)
         span == Len(spans[c])
         url == spans[c][span].url
     IN  IF r.ok
           THEN LET obj == Obj(NewOid(c, call.i), call.document.id, r.type)
                IN  /\ spans' = [spans EXCEPT ![c][span] =
                          [@ EXCEPT !.objectId = IF obj.id = "" THEN url ELSE obj.id,
                                    !.objectType = obj.type,
                                    !.ends = @ + 1]]
                    /\ calls' = [calls EXCEPT ![c] =
                          [call EXCEPT !.pc = "fetched", !.fetched = obj,
                                       !.error = ""]]
         ELSE IF call.suppressError
           THEN /\ spans' = [spans EXCEPT ![c][span] = [@ EXCEPT !.ends = @ + 1]]
                /\ calls' = [calls EXCEPT ![c] =
                      [call EXCEPT !.pc = "fetched", !.fetched = NullValue,
                                   !.error = ""]]
         ELSE /\ spans' = [spans EXCEPT ![c][span] =
                    [@ EXCEPT !.status = "ERROR", !.message = r.error,
                              !.ends = @ + 1]]
              /\ calls' = [calls EXCEPT ![c] =
                    [call EXCEPT !.pc = "fetched", !.fetched = NullValue,
                                 !.error = r.error]]
  /\ UNCHANGED <<slots, cachedJsonLd, loaderCalls>>

\* property.ts:188 and 245, the resolved object not stored
StoreNothing(vs, i, fetched) == vs

\* property.ts:188 and 245, the resolved object stored only where the
\* reference still is
StoreIfReference(vs, i, fetched) ==
  IF vs[i].kind = "url" THEN [vs EXCEPT ![i] = fetched] ELSE vs

\* property.ts:188 and 245, the resolved object added at the end of the list
StoreAppended(vs, i, fetched) == Append(vs, fetched)

\* property.ts:188 and 245: this.<field>[i] = fetched
Store(vs, i, fetched) == [vs EXCEPT ![i] = fetched]

\* property.ts:185-188 and 241-245: the await of #fetch<Singular> resumes in
\* the accessor: the rejection goes on to the caller (89, 116), null makes
\* get<Singular> return null and get<Plural> continue with the next value
\* (187, 244), an object is stored (188, 245)
AwaitFetch(c) ==
  /\ calls[c].pc = "fetched"
  /\ LET call == calls[c]
     IN  IF call.error # ""
           THEN /\ calls' = [calls EXCEPT ![c] =
                      [call EXCEPT !.pc = "done", !.raised = call.error,
                                   !.error = ""]]
                /\ UNCHANGED <<slots, loaderCalls, spans>>
         ELSE IF call.fetched.kind = "null"
           THEN LET next == Skip(call, loaderCalls[c], spans[c])
                IN  /\ calls' = [calls EXCEPT ![c] = next.call]
                    /\ loaderCalls' = [loaderCalls EXCEPT ![c] = next.loaderCalls]
                    /\ spans' = [spans EXCEPT ![c] = next.spans]
                    /\ UNCHANGED slots
         ELSE /\ slots' = Store(slots, call.i, call.fetched)
              /\ calls' = [calls EXCEPT ![c] = [call EXCEPT !.pc = "stored"]]
              /\ UNCHANGED <<loaderCalls, spans>>
  /\ UNCHANGED cachedJsonLd

\* property.ts:189 and 246: the caller gets the object that get<Singular>
\* returned or get<Plural> yielded
ReturnFetched(c) ==
  /\ calls[c].pc = "stored"
  /\ calls' = [calls EXCEPT ![c] =
        [@ EXCEPT !.pc = AfterValue(calls[c]), !.fetched = NullValue,
                  !.out = Append(@, Produced(calls[c].i, calls[c].fetched))]]
  /\ UNCHANGED <<slots, cachedJsonLd, loaderCalls, spans>>

\* property.ts:203-205 and 261-264: the parse of the cached fragment settles
CachedSettle(c) ==
  /\ calls[c].pc = "cachedParsing"
  /\ LET call == calls[c]
         r == fromJsonLd(call.document)
     IN  IF r.ok
           THEN calls' = [calls EXCEPT ![c] =
                  [call EXCEPT !.pc = AfterValue(call),
                     !.out = Append(@, Produced(call.i,
                               Obj(NewOid(c, call.i), call.document.id, r.type)))]]
           ELSE calls' = [calls EXCEPT ![c] =
                  [call EXCEPT !.pc = "done", !.raised = r.error]]
  /\ UNCHANGED <<slots, cachedJsonLd, loaderCalls, spans>>

\* property.ts:238: the consumer asks get<Plural> for the next value
Resume(c) ==
  /\ calls[c].pc = "yielded"
  /\ LET next == Visit(calls[c], calls[c].i + 1, loaderCalls[c], spans[c])
     IN  /\ calls' = [calls EXCEPT ![c] = next.call]
         /\ loaderCalls' = [loaderCalls EXCEPT ![c] = next.loaderCalls]
         /\ spans' = [spans EXCEPT ![c] = next.spans]
  /\ UNCHANGED <<slots, cachedJsonLd>>

\* ========================================================================
\* #<singular>_fromJsonLd as generateProperty emits it for a property
\* (property.ts:123-155): one try block per type of property.range that is
\* in `types`, in the order of property.range
\* ========================================================================

VARIABLES
  parseProperty,  \* the property: its range
  parseJsonLd,    \* the document handed to #<singular>_fromJsonLd
  parseResult     \* what the call made of it

\* the longest property.range
MaxCandidates == 2

\* the URIs a range is made of, and those of them that `types` holds (the
\* others are scalar types, which have no fromJsonLd)
RangeUris == {"Person", "Service", "xsd:string"}
Types == {"Person", "Service"}

\* what <Type>.fromJsonLd makes of a document: an instance, a TypeError or
\* another failure
ParseOutcomes == {"ok", "TypeError", "Error"}

\* the properties with a range that holds a type of `types` (property.ts:31)
ParseProperties ==
  { pr \in [range : SeqsUpTo(RangeUris, MaxCandidates)] :
      \E k \in DOMAIN pr.range : pr.range[k] \in Types }

\* the documents, with what the type at each place of the range makes of them
DocumentsFor(property) ==
  [id : {"", "https://r.example/o"},
   parse : [DOMAIN property.range -> ParseOutcomes]]

NoParse ==
  [settled |-> FALSE, ok |-> FALSE, type |-> "", error |-> "",
   tried |-> <<>>, named |-> <<>>]

\* property.ts:138-155, every failure of a candidate taken for a mismatch
RECURSIVE TryRangeLenient(_, _, _, _)
TryRangeLenient(range, document, k, tried) ==
  IF k > Len(range)
    THEN [NoParse EXCEPT !.settled = TRUE, !.error = "TypeError",
                         !.tried = tried, !.named = range]
  ELSE IF range[k] \notin Types
    THEN TryRangeLenient(range, document, k + 1, tried)
  ELSE IF document.parse[k] = "ok"
    THEN [NoParse EXCEPT !.settled = TRUE, !.ok = TRUE, !.type = range[k],
                         !.tried = Append(tried, k)]
  ELSE TryRangeLenient(range, document, k + 1, Append(tried, k))

\* property.ts:138-155: the try blocks from the k-th type of the range on;
\* tried are the places whose fromJsonLd was called, named the types that the
\* final TypeError lists
RECURSIVE TryRange(_, _, _, _)
TryRange(range, document, k, tried) ==
  IF k > Len(range)
    THEN [NoParse EXCEPT !.settled = TRUE, !.error = "TypeError",
                         !.tried = tried, !.named = range]
  ELSE IF range[k] \notin Types
    THEN TryRange(range, document, k + 1, tried)
  ELSE IF document.parse[k] = "ok"
    THEN [NoParse EXCEPT !.settled = TRUE, !.ok = TRUE, !.type = range[k],
                         !.tried = Append(tried, k)]
  ELSE IF document.parse[k] = "TypeError"
    THEN TryRange(range, document, k + 1, Append(tried, k))
  ELSE [NoParse EXCEPT !.settled = TRUE, !.error = document.parse[k],
                       !.tried = Append(tried, k)]

\* property.ts:123-155, going on to the next candidate after any failure
singular_fromJsonLdLenient(property, document) ==
  TryRangeLenient(property.range, document, 1, <<>>)

\* property.ts:123-155
singular_fromJsonLd(property, document) == TryRange(property.range, document, 1, <<>>)

psVars == <<parseProperty, parseJsonLd, parseResult>>

\* a call of #<singular>_fromJsonLd (property.ts:93, 204, 262)
ParseCall ==
  /\ ~parseResult.settled
  /\ parseResult' = singular_fromJsonLd(parseProperty, parseJsonLd)
  /\ UNCHANGED <<parseProperty, parseJsonLd>>

\* ========================================================================
\* Specifications
\* ========================================================================

vars == <<exVars, sendVars, rsVars, psVars>>

ExtractNext == ExtractCall /\ UNCHANGED <<sendVars, rsVars, psVars>>

\* calls of extractInboxes on every parameter record within the bounds
InitExtract ==
  /\ exParams \in [recipients : SeqsUpTo(Recipients, MaxRecipients),
                   preferSharedInbox : BOOLEAN,
                   excludeBaseUris : ExcludeLists]
  /\ exDone = FALSE
  /\ exResult = EmptyInboxes
  /\ activity = [id |-> NoUrl, actorId |-> NoUrl, proofs |-> <<>>]
  /\ keys = <<>>
  /\ inbox = NoUrl
  /\ headers = {}
  /\ pc = "idle"
  /\ ki = 1
  /\ proofCreated = FALSE
  /\ rsaKey = NoKey
  /\ jsonLd = NoDoc
  /\ request = NoRequest
  /\ response = NoResponse
  /\ thrown = NoError
  /\ events = <<>>
  /\ slots = <<>>
  /\ cachedJsonLd = NoCachedJsonLd
  /\ calls = [c \in Callers |-> NoCall]
  /\ loaderCalls = [c \in Callers |-> <<>>]
  /\ spans = [c \in Callers |-> <<>>]
  /\ parseProperty = [range |-> <<>>]
  /\ parseJsonLd = NoDocument
  /\ parseResult = NoParse

SpecExtract == InitExtract /\ [][ExtractNext]_vars

SendNext ==
  \/ SendStart /\ UNCHANGED <<exVars, rsVars, psVars>>
  \/ KeyStep /\ UNCHANGED <<exVars, rsVars, psVars>>
  \/ Serialize /\ UNCHANGED <<exVars, rsVars, psVars>>
  \/ LdSign /\ UNCHANGED <<exVars, rsVars, psVars>>
  \/ BuildRequest /\ UNCHANGED <<exVars, rsVars, psVars>>
  \/ HttpSign /\ UNCHANGED <<exVars, rsVars, psVars>>
  \/ Fetch /\ UNCHANGED <<exVars, rsVars, psVars>>
  \/ Respond /\ UNCHANGED <<exVars, rsVars, psVars>>

\* calls of sendActivity on every parameter record within the bounds
InitSend ==
  /\ activity \in Activities
  /\ keys \in KeyLists
  /\ inbox \in Inboxes
  /\ headers \in CallerHeaders
  /\ pc = "start"
  /\ ki = 1
  /\ proofCreated = FALSE
  /\ rsaKey = NoKey
  /\ jsonLd = NoDoc
  /\ request = NoRequest
  /\ response = NoResponse
  /\ thrown = NoError
  /\ events = <<>>
  /\ exParams = [recipients |-> <<>>, preferSharedInbox |-> FALSE,
                 excludeBaseUris |-> [defined |-> FALSE, uris |-> <<>>]]
  /\ exDone = TRUE
  /\ exResult = EmptyInboxes
  /\ slots = <<>>
  /\ cachedJsonLd = NoCachedJsonLd
  /\ calls = [c \in Callers |-> NoCall]
  /\ loaderCalls = [c \in Callers |-> <<>>]
  /\ spans = [c \in Callers |-> <<>>]
  /\ parseProperty = [range |-> <<>>]
  /\ parseJsonLd = NoDocument
  /\ parseResult = NoParse

SpecSend == InitSend /\ [][SendNext]_vars

ResolveNext ==
  \/ \E c \in Callers : Begin(c) /\ UNCHANGED <<exVars, sendVars, psVars>>
  \/ \E c \in Callers : LoaderSettle(c) /\ UNCHANGED <<exVars, sendVars, psVars>>
  \/ \E c \in Callers : ParseSettle(c) /\ UNCHANGED <<exVars, sendVars, psVars>>
  \/ \E c \in Callers : AwaitFetch(c) /\ UNCHANGED <<exVars, sendVars, psVars>>
  \/ \E c \in Callers : ReturnFetched(c) /\ UNCHANGED <<exVars, sendVars, psVars>>
  \/ \E c \in Callers : CachedSettle(c) /\ UNCHANGED <<exVars, sendVars, psVars>>
  \/ \E c \in Callers : Resume(c) /\ UNCHANGED <<exVars, sendVars, psVars>>

\* accessor calls of two callers on every instance within the bounds
InitResolve ==
  /\ slots \in SlotLists
  /\ cachedJsonLd \in CachedJsonLds(Len(slots))
  /\ calls = [c \in Callers |-> NoCall]
  /\ loaderCalls = [c \in Callers |-> <<>>]
  /\ spans = [c \in Callers |-> <<>>]
  /\ exParams = [recipients |-> <<>>, preferSharedInbox |-> FALSE,
                 excludeBaseUris |-> [defined |-> FALSE, uris |-> <<>>]]
  /\ exDone = TRUE
  /\ exResult = EmptyInboxes
  /\ activity = [id |-> NoUrl, actorId |-> NoUrl, proofs |-> <<>>]
  /\ keys = <<>>
  /\ inbox = NoUrl
  /\ headers = {}
  /\ pc = "idle"
  /\ ki = 1
  /\ proofCreated = FALSE
  /\ rsaKey = NoKey
  /\ jsonLd = NoDoc
  /\ request = NoRequest
  /\ response = NoResponse
  /\ thrown = NoError
  /\ events = <<>>
  /\ parseProperty = [range |-> <<>>]
  /\ parseJsonLd = NoDocument
  /\ parseResult = NoParse

SpecResolve == InitResolve /\ [][ResolveNext]_vars

ParseNext == ParseCall /\ UNCHANGED <<exVars, sendVars, rsVars>>

\* calls of #<singular>_fromJsonLd on every property and document within the
\* bounds
InitParse ==
  /\ parseProperty \in ParseProperties
  /\ parseJsonLd \in DocumentsFor(parseProperty)
  /\ parseResult = NoParse
  /\ exParams = [recipients |-> <<>>, preferSharedInbox |-> FALSE,
                 excludeBaseUris |-> [defined |-> FALSE, uris |-> <<>>]]
  /\ exDone = TRUE
  /\ exResult = EmptyInboxes
  /\ activity = [id |-> NoUrl, actorId |-> NoUrl, proofs |-> <<>>]
  /\ keys = <<>>
  /\ inbox = NoUrl
  /\ headers = {}
  /\ pc = "idle"
  /\ ki = 1
  /\ proofCreated = FALSE
  /\ rsaKey = NoKey
  /\ jsonLd = NoDoc
  /\ request = NoRequest
  /\ response = NoResponse
  /\ thrown = NoError
  /\ events = <<>>
  /\ slots = <<>>
  /\ cachedJsonLd = NoCachedJsonLd
  /\ calls = [c \in Callers |-> NoCall]
  /\ loaderCalls = [c \in Callers |-> <<>>]
  /\ spans = [c \in Callers |-> <<>>]

SpecParse == InitParse /\ [][ParseNext]_vars

\* ========================================================================
\* Claims about sendActivity (checked under SpecSend)
\* ========================================================================

\* positions of the events of one kind
EventsOf(op) == {i \in DOMAIN events : events[i].op = op}

HasRsaKey == \E i \in DOMAIN keys : keys[i].alg = RSA

\* position of the first RSA key of the list
FirstRsa ==
  CHOOSE i \in DOMAIN keys :
    keys[i].alg = RSA /\ \A j \in 1..(i - 1) : keys[j].alg # RSA

IsEdKey(k) == k.alg = ED

\* the keyIds of the Ed25519 keys of a list, in list order
EdKeyIds(ks) ==
  LET ed == SelectSeq(ks, IsEdKey) IN [i \in DOMAIN ed |-> ed[i].keyId]

ValidationMessages ==
  { "The activity to send must have an id.",
    "The activity to send must have at least one actor property.",
    "The keys must not be empty." }

\* C1: an activity without id or without actor, or an empty key list, makes
\* the call fail with a TypeError before any key validation, signing step,
\* serialization or network request.
C1_ValidationBeforeAnything ==
  (pc # "start" /\ (activity.id = NoUrl \/ activity.actorId = NoUrl \/ Len(keys) = 0))
    => /\ pc = "failed"
       /\ thrown.kind = "TypeError"
       /\ thrown.text \in ValidationMessages
       /\ events = <<>>
       /\ jsonLd = NoDoc
       /\ request = NoRequest
       /\ response = NoResponse

C1_Witness ==
  /\ pc = "failed"
  /\ activity.id # NoUrl
  /\ activity.actorId # NoUrl
  /\ Len(keys) = 0
  /\ thrown.text = "The keys must not be empty."

\* C2: the request that is sent carries a Linked-Data Signature iff it carries
\* transport signature headers iff the key list holds an RSA key; without an
\* RSA key neither signing layer fails the call, and the request is sent.
C2_BothLayersOrNone ==
  /\ EventsOf("fetch") # {} =>
       /\ (request.body.signature # 0) <=> (request.signedBy # 0)
       /\ (request.signedBy # 0) <=> HasRsaKey
  /\ (jsonLd.made /\ ~HasRsaKey) =>
       /\ thrown.text \notin {"signJsonLd", "signRequest"}
       /\ pc = "failed" => EventsOf("fetch") # {}
       /\ pc \in {"fetch", "response", "done", "failed"} =>
            /\ request.body.signature = 0
            /\ request.signedBy = 0

C2_Witness ==
  /\ pc = "done"
  /\ ~HasRsaKey
  /\ EventsOf("fetch") # {}
  /\ request.body.signature = 0
  /\ request.signedBy = 0
  /\ request.body.proofs # <<>>

\* C3: the serialized message carries one Integrity Proof per Ed25519 key of
\* the list, in list order, each added to the proofs attached before it,
\* wherever the RSA keys sit.
C3_OneProofPerEdKey ==
  /\ pc = "keys" => activity.proofs = EdKeyIds(SubSeq(keys, 1, ki - 1))
  /\ jsonLd.made =>
       /\ jsonLd.proofs = EdKeyIds(keys)
       /\ Len(jsonLd.proofs) = Cardinality({i \in DOMAIN keys : keys[i].alg = ED})
  /\ request # NoRequest => request.body.proofs = EdKeyIds(keys)

C3_Witness ==
  /\ jsonLd.made
  /\ Len(keys) = 3
  /\ keys[2].alg = RSA
  /\ jsonLd.proofs = <<1, 3>>

\* C4: the RSA signer is the first RSA key of the list; the Linked-Data
\* Signature and the transport signature are made with it, and a later RSA
\* key is validated and used for no signature or proof.
C4_FirstRsaKeySigns ==
  /\ rsaKey # NoKey => (HasRsaKey /\ rsaKey = keys[FirstRsa])
  /\ (pc \notin {"start", "keys", "failed"} /\ HasRsaKey) => rsaKey = keys[FirstRsa]
  /\ \A i \in DOMAIN events :
       /\ events[i].op \in {"signJsonLd", "signRequest"} =>
            (HasRsaKey /\ events[i].key = FirstRsa)
       /\ events[i].op = "signObject" => keys[events[i].key].alg # RSA
  /\ jsonLd.signature # 0 => (HasRsaKey /\ jsonLd.signature = FirstRsa)
  /\ request.signedBy # 0 => (HasRsaKey /\ request.signedBy = FirstRsa)
  /\ request.body.signature # 0 => (HasRsaKey /\ request.body.signature = FirstRsa)
  /\ \A i \in DOMAIN activity.proofs : keys[activity.proofs[i]].alg # RSA

C4_Witness ==
  /\ pc = "done"
  /\ Len(keys) = 3
  /\ keys[1].alg = ED
  /\ keys[2].alg = RSA
  /\ keys[3].alg = RSA
  /\ request.signedBy = 2
  /\ request.body.signature = 2
  /\ EventsOf("validateCryptoKey") = {1, 3, 4}

\* C5: a status outside 200..299 is logged at error severity and then raised
\* as an Error carrying the activity id, the inbox, the status and the body
\* text ("" when the body cannot be read); a status in 200..299 ends the call
\* without error.
C5_DeliveryOutcome ==
  (response # NoResponse /\ pc # "response") =>
    IF response.status \in 200..299
      THEN /\ pc = "done"
           /\ thrown = NoError
           /\ EventsOf("logger.error") = {}
      ELSE LET text == IF response.readable THEN response.body ELSE ""
           IN  /\ pc = "failed"
               /\ thrown = [kind |-> "Error", activityId |-> Href(ActivityId),
                            inbox |-> Href(inbox), status |-> response.status,
                            text |-> text]
               /\ events[Len(events)].op = "logger.error"
               /\ events[Len(events)].status = response.status
               /\ events[Len(events)].text = text
               /\ events[Len(events)].arg = Href(ActivityId) \o " " \o Href(inbox)

C5_Witness ==
  /\ pc = "failed"
  /\ response.status = 500
  /\ thrown.status = 500
  /\ thrown.text = "boom"

\* the failures raised before the request is sent
PreSendFailures ==
  ValidationMessages \cup
    {"validateCryptoKey", "signObject", "toJsonLd", "signJsonLd", "signRequest"}

\* C6: one call issues at most one request, to the given inbox, and exactly
\* one when validation and signing succeed; a non-2xx response is followed by
\* no further request and its failure is raised.
C6_SingleAttempt ==
  /\ Cardinality(EventsOf("fetch")) <= 1
  /\ \A i \in EventsOf("fetch") : events[i].arg = Href(inbox)
  /\ (pc \in {"response", "done"}) => Cardinality(EventsOf("fetch")) = 1
  /\ (pc = "failed" /\ thrown.text \notin PreSendFailures) =>
       Cardinality(EventsOf("fetch")) = 1
  /\ (pc = "failed" /\ thrown.text \in PreSendFailures) => EventsOf("fetch") = {}
  /\ (response # NoResponse /\ response.status \notin 200..299 /\ pc # "response") =>
       /\ pc = "failed"
       /\ thrown.kind = "Error"
       /\ thrown.status = response.status

C6_Witness ==
  /\ pc = "failed"
  /\ response.status = 404
  /\ Cardinality(EventsOf("fetch")) = 1
  /\ events[Len(events)].op = "logger.error"

\* the warnings logged so far, and those about the missing proof
Warnings == EventsOf("logger.warn")
ProofWarnings == {i \in Warnings : events[i].arg = "proof"}

HasEdKey == \E i \in DOMAIN keys : IsEdKey(keys[i])

\* the call has come to send.ts:200 (the warnings of 167-199 are decided)
RequestBuilt == request # NoRequest

\* the call has come to send.ts:224 (all warnings are decided)
SendReached == pc \in {"fetch", "response", "done"} \/ EventsOf("fetch") # {}

\* C16: once the request is built, the warning about the missing proof has
\* been logged once if the key list holds no Ed25519 key and not at all if it
\* holds one, with or without an RSA key in the list, and it is never logged
\* earlier; a send with Ed25519 keys only has logged two warnings when it
\* comes to the network send, and a send with one RSA and one Ed25519 key
\* logs none.
C16_ProofWarning ==
  /\ Cardinality(ProofWarnings) = IF RequestBuilt /\ ~HasEdKey THEN 1 ELSE 0
  /\ ((\A i \in DOMAIN keys : IsEdKey(keys[i])) /\ SendReached) =>
       /\ Cardinality(Warnings) = 2
       /\ Cardinality(ProofWarnings) = 0
  /\ (Len(keys) = 2 /\ HasRsaKey /\ HasEdKey) => Warnings = {}

\* a send with RSA keys only has been delivered: the RSA signer signed the
\* document and the request, and the one warning is the one about the proof
C16_Witness ==
  /\ pc = "done"
  /\ \A i \in DOMAIN keys : keys[i].alg = RSA
  /\ jsonLd.signature # 0
  /\ request.signedBy # 0
  /\ Cardinality(Warnings) = 1
  /\ Cardinality(ProofWarnings) = 1

\* the place of a collaborator call or log record in the order of the steps
\* of sendActivity: 1 the loop over the keys (send.ts:149-162), 2 the
\* serialization (163-166), 3 the Linked Data signature (167-185), 4 the
\* construction of the request (186-206), 5 the request signature (207-223),
\* 6 the network send (224), 7 its outcome (225-247)
StepOf(e) ==
  IF e.op \in {"validateCryptoKey", "signObject"} THEN 1
  ELSE IF e.op = "toJsonLd" THEN 2
  ELSE IF e.op = "signJsonLd" THEN 3
  ELSE IF e.op = "logger.warn" /\ e.arg = "Linked Data signature" THEN 3
  ELSE IF e.op = "logger.warn" /\ e.arg = "proof" THEN 4
  ELSE IF e.op = "signRequest" THEN 5
  ELSE IF e.op = "logger.warn" /\ e.arg = "request signature" THEN 5
  ELSE IF e.op = "fetch" THEN 6
  ELSE 7

\* C17: the collaborator calls of a run occur in the order proof attachments,
\* serialization, Linked Data signature, request signature, network send,
\* each of the last four at most once; the serialized document carries all
\* the proofs attached to the activity, the Linked Data signature is added to
\* that document, the body of the request is that signed document, the
\* request signature is added to that request, and that request is sent.
C17_StepOrder ==
  /\ \A i, j \in DOMAIN events : i < j => StepOf(events[i]) <= StepOf(events[j])
  /\ \A op \in {"toJsonLd", "signJsonLd", "signRequest", "fetch"} :
       Cardinality(EventsOf(op)) <= 1
  /\ jsonLd.made =>
       /\ jsonLd.proofs = activity.proofs
       /\ jsonLd.proofs = EdKeyIds(keys)
       /\ jsonLd.id = Href(activity.id)
       /\ jsonLd.signature # 0 => EventsOf("signJsonLd") # {}
  /\ request # NoRequest =>
       /\ request.body = jsonLd
       /\ HasRsaKey => jsonLd.signature = keys[FirstRsa].keyId
       /\ request.signedBy # 0 => EventsOf("signRequest") # {}
  /\ \A i \in EventsOf("fetch") :
       /\ events[i].arg = request.url
       /\ events[i].key = request.signedBy
       /\ HasRsaKey => request.signedBy = keys[FirstRsa].keyId

\* a send with an Ed25519 key and an RSA key has been delivered after all six
\* steps: the request sent bears the request signature and its body is the
\* document with the proof and the Linked Data signature
C17_Witness ==
  /\ pc = "done"
  /\ EventsOf("signObject") # {}
  /\ EventsOf("toJsonLd") # {}
  /\ EventsOf("signJsonLd") # {}
  /\ EventsOf("signRequest") # {}
  /\ EventsOf("fetch") # {}
  /\ request.signedBy # 0
  /\ request.body.signature # 0
  /\ request.body.proofs # <<>>

\* some key of the list, at any position, does not pass validateCryptoKey
HasInvalidKey == \E i \in DOMAIN keys : ~validateCryptoKey(keys[i])

\* C18: when some key of the list fails validation, no proof is attached and
\* no Linked Data signature, request signature or network send is made with
\* any key, the serialization is not reached, and the call does not succeed.
C18_AllKeysValidatedFirst ==
  HasInvalidKey =>
    /\ EventsOf("signObject") = {}
    /\ activity.proofs = <<>>
    /\ EventsOf("signJsonLd") = {}
    /\ EventsOf("signRequest") = {}
    /\ EventsOf("fetch") = {}
    /\ pc \in {"start", "keys", "failed"}

\* ========================================================================
\* Claims about extractInboxes (checked under SpecExtract)
\* ========================================================================

\* the inbox the recipient is delivered through, as the documentation has it
DocumentedInbox(r) ==
  IF exParams.preferSharedInbox /\ r.sharedInbox # NoUrl
    THEN r.sharedInbox
    ELSE r.inboxId

\* some excluded URL has the origin of u
OriginExcluded(u) ==
  /\ exParams.excludeBaseUris.defined
  /\ \E k \in DOMAIN exParams.excludeBaseUris.uris :
       exParams.excludeBaseUris.uris[k].origin = u.origin

\* recipient i has an identity and an inbox that is not excluded
Contributes(i) ==
  LET r == exParams.recipients[i]
  IN  /\ r.id # NoUrl
      /\ DocumentedInbox(r) # NoUrl
      /\ ~OriginExcluded(DocumentedInbox(r))

\* the recipients that contribute under the key k
ContributorsOf(k) ==
  {i \in DOMAIN exParams.recipients :
     Contributes(i) /\ Href(DocumentedInbox(exParams.recipients[i])) = k}

\* the list without its i-th element
Without(seq, i) ==
  [j \in 1..(Len(seq) - 1) |-> IF j < i THEN seq[j] ELSE seq[j + 1]]

\* the identities of all entries of the result
AllListed == UNION {RangeOf(exResult[k]) : k \in DOMAIN exResult}

\* C7: recipients are grouped by the exact URL of their chosen inbox; an
\* entry holds the identity of each of its recipients once, two URLs of one
\* origin make two entries, and no entry is empty or holds a foreign identity.
C7_GroupedByExactUrl ==
  exDone =>
    /\ DOMAIN exResult =
         {Href(DocumentedInbox(exParams.recipients[i])) :
            i \in {j \in DOMAIN exParams.recipients : Contributes(j)}}
    /\ \A k \in DOMAIN exResult :
         /\ Len(exResult[k]) > 0
         /\ \A a, b \in DOMAIN exResult[k] :
              a # b => exResult[k][a] # exResult[k][b]
         /\ RangeOf(exResult[k]) =
              {Href(exParams.recipients[i].id) : i \in ContributorsOf(k)}

C7_Witness ==
  /\ exDone
  /\ Len(exParams.recipients) = 2
  /\ ~exParams.preferSharedInbox
  /\ exParams.recipients[1].inboxId = exParams.recipients[2].inboxId
  /\ exParams.recipients[1].id # exParams.recipients[2].id
  /\ DOMAIN exResult = {Href(exParams.recipients[1].inboxId)}
  /\ Len(exResult[Href(exParams.recipients[1].inboxId)]) = 2

\* C8: the chosen inbox is the shared inbox when preferSharedInbox is set and
\* the recipient has one, the personal inbox otherwise; a recipient without
\* chosen inbox or without identity contributes nothing.
C8_ChosenInboxRule ==
  exDone =>
    \A i \in DOMAIN exParams.recipients :
      LET r == exParams.recipients[i]
      IN  /\ Contributes(i) =>
               /\ Href(DocumentedInbox(r)) \in DOMAIN exResult
               /\ Href(r.id) \in RangeOf(exResult[Href(DocumentedInbox(r))])
               /\ \A k \in DOMAIN exResult :
                    Href(r.id) \in RangeOf(exResult[k]) =>
                      \E j \in ContributorsOf(k) : exParams.recipients[j].id = r.id
          /\ (DocumentedInbox(r) = NoUrl \/ r.id = NoUrl) =>
               exResult =
                 extractInboxes([exParams EXCEPT !.recipients = Without(@, i)])

C8_Witness ==
  /\ exDone
  /\ exParams.preferSharedInbox
  /\ ~exParams.excludeBaseUris.defined
  /\ Len(exParams.recipients) = 2
  /\ exParams.recipients[1].sharedInbox # NoUrl
  /\ exParams.recipients[1].inboxId # NoUrl
  /\ exParams.recipients[2].sharedInbox = NoUrl
  /\ exParams.recipients[2].inboxId # NoUrl
  /\ exParams.recipients[1].id # NoUrl
  /\ exParams.recipients[2].id # NoUrl
  /\ DOMAIN exResult = {Href(exParams.recipients[1].sharedInbox),
                        Href(exParams.recipients[2].inboxId)}

\* C9 as stated: a recipient whose personal inbox has the origin of an
\* excluded URL has its identity in no entry, whatever preferSharedInbox is
\* (read for a recipient that alone in the list has its identity).
C9_PersonalInboxExcluded ==
  exDone =>
    \A i \in DOMAIN exParams.recipients :
      LET r == exParams.recipients[i]
      IN  (/\ r.id # NoUrl
           /\ r.inboxId # NoUrl
           /\ OriginExcluded(r.inboxId)
           /\ \A j \in DOMAIN exParams.recipients :
                j # i => exParams.recipients[j].id # r.id) =>
            Href(r.id) \notin AllListed

\* C9 amended: a recipient whose chosen inbox has the origin of an excluded
\* URL is omitted entirely: the result is the one computed without it, and
\* its identity is in an entry only if another recipient with that identity
\* and a chosen inbox that is not excluded put it there.
C9_ChosenInboxExcluded ==
  exDone =>
    \A i \in DOMAIN exParams.recipients :
      LET r == exParams.recipients[i]
      IN  (r.id # NoUrl /\ DocumentedInbox(r) # NoUrl
             /\ OriginExcluded(DocumentedInbox(r))) =>
            /\ exResult =
                 extractInboxes([exParams EXCEPT !.recipients = Without(@, i)])
            /\ Href(DocumentedInbox(r)) \notin DOMAIN exResult
            /\ \A k \in DOMAIN exResult :
                 Href(r.id) \in RangeOf(exResult[k]) =>
                   \E j \in ContributorsOf(k) :
                     j # i /\ exParams.recipients[j].id = r.id

C9_Witness ==
  /\ exDone
  /\ Len(exParams.recipients) = 2
  /\ exParams.recipients[1].id # NoUrl
  /\ exParams.recipients[1].inboxId # NoUrl
  /\ ~exParams.preferSharedInbox
  /\ OriginExcluded(exParams.recipients[1].inboxId)
  /\ \A k \in DOMAIN exParams.excludeBaseUris.uris :
       Href(exParams.excludeBaseUris.uris[k]) # Href(exParams.recipients[1].inboxId)
  /\ exParams.recipients[2].id # exParams.recipients[1].id
  /\ Contributes(2)
  /\ Href(exParams.recipients[1].id) \notin AllListed
  /\ AllListed = {Href(exParams.recipients[2].id)}

\* ========================================================================
\* Claims about the accessors (checked under SpecResolve)
\* ========================================================================

\* the call of c invoked the loader for the i-th value
Loaded(c, i) == \E n \in DOMAIN loaderCalls[c] : loaderCalls[c][n].i = i

\* the values the call of c returned or yielded for the i-th value
ValuesFor(c, i) ==
  {calls[c].out[n].val : n \in {m \in DOMAIN calls[c].out : calls[c].out[m].i = i}}

\* the call of c resolved the i-th value, a reference, to an object
Resolved(c, i) ==
  /\ calls[c].op \in Getters
  /\ Loaded(c, i)
  /\ \E v \in ValuesFor(c, i) : v.kind = "obj"

\* the call of c is through with the i-th value
Answered(c, i) ==
  /\ calls[c].op \in Getters
  /\ \/ ValuesFor(c, i) # {}
     \/ calls[c].pc = "done" /\ calls[c].raised # "" /\ calls[c].i = i

\* C10: when a resolving call has resolved a reference and a second resolving
\* call is made afterwards, the value holds the resolved object, the second
\* call does not invoke the loader for it and returns that same object.
C10_SecondCallServedFromSlot ==
  \A a, b \in Callers :
    (a # b /\ calls[b].after /\ calls[b].op \in Getters) =>
      \A i \in DOMAIN slots :
        Resolved(a, i) =>
          /\ slots[i] \in ValuesFor(a, i)
          /\ ~Loaded(b, i)
          /\ Answered(b, i) => ValuesFor(b, i) = {slots[i]}

\* what holds of the two calls: the first call stores the object it resolved
\* and the second call leaves the loader alone
LoaderNotInvokedAgain ==
  \A a, b \in Callers :
    (a # b /\ calls[b].after /\ calls[b].op \in Getters) =>
      \A i \in DOMAIN slots :
        Resolved(a, i) =>
          /\ slots[i] \in ValuesFor(a, i)
          /\ ~Loaded(b, i)
          /\ (Answered(b, i) /\ ~CachedFragment(i).ctx) =>
               ValuesFor(b, i) = {slots[i]}

SecondCallAnswered ==
  /\ calls[2].after
  /\ calls[2].op \in Getters
  /\ Resolved(1, 1)
  /\ Answered(2, 1)
  /\ ~CachedFragment(1).ctx
  /\ ValuesFor(2, 1) = {slots[1]}

\* the call of c is the only resolving call on the instance, and the instance
\* was created with references only: a value is a reference or the object
\* that the call of c stored there
OnlyResolver(c) ==
  /\ calls[c].op \in Getters
  /\ \A d \in Callers \ {c} : calls[d].op \notin Getters
  /\ \A i \in DOMAIN slots :
       slots[i].kind = "url" \/ slots[i].oid = NewOid(c, i)

\* the call of c is through with the i-th value
Passed(c, i) ==
  \/ calls[c].i > i
  \/ calls[c].pc = "done"
  \/ calls[c].i = i /\ calls[c].pc = "yielded"

\* the load and the parse of the i-th value succeeded in the call of c
\* (property.ts:97-102 names the object on the span)
LoadAndParseOk(c, i) ==
  \E n \in DOMAIN spans[c] : spans[c][n].i = i /\ spans[c][n].objectType # ""

\* C11: a get<Plural> call with suppressError on an instance of references
\* only yields, in the order of the values, exactly the objects of the values
\* whose load and parse succeeded, skips the others and goes on to the end of
\* the list, never raises, yields at most one value per slot and invokes the
\* loader at most once per slot; the values that failed are still their
\* references.
C11_PluralSuppressedSkips ==
  \A c \in Callers :
    (OnlyResolver(c) /\ calls[c].op = "getPlural" /\ calls[c].suppressError) =>
      LET out == calls[c].out
      IN  /\ calls[c].raised = ""
          /\ \A m, n \in DOMAIN out : m < n => out[m].i < out[n].i
          /\ \A m, n \in DOMAIN loaderCalls[c] :
               m < n => loaderCalls[c][m].i < loaderCalls[c][n].i
          /\ \A n \in DOMAIN out :
               /\ out[n].i \in DOMAIN slots
               /\ out[n].val = slots[out[n].i]
               /\ out[n].val.kind = "obj"
               /\ LoadAndParseOk(c, out[n].i)
          /\ \A i \in DOMAIN slots :
               Passed(c, i) =>
                 /\ Loaded(c, i)
                 /\ IF LoadAndParseOk(c, i)
                      THEN ValuesFor(c, i) = {slots[i]}
                      ELSE ValuesFor(c, i) = {} /\ slots[i] = Ref(SlotUrl(i))
          /\ calls[c].pc = "done" => calls[c].i = Len(slots) + 1

\* a get<Plural> call with suppressError has ended: the load of the first
\* reference failed and the second one was resolved and yielded
C11_Witness ==
  /\ OnlyResolver(1)
  /\ calls[1].op = "getPlural"
  /\ calls[1].suppressError
  /\ calls[1].pc = "done"
  /\ Len(slots) = 2
  /\ spans[1][1].status = "ERROR"
  /\ slots[1] = Ref(SlotUrl(1))
  /\ Len(calls[1].out) = 1
  /\ calls[1].out[1] = Produced(2, slots[2])
  /\ slots[2].kind = "obj"

\* both calls invoked the loader for the i-th value: each of them found the
\* reference there, so neither had written the slot when the other read it
Overlapping(i) == \A c \in Callers : calls[c].op \in Getters /\ Loaded(c, i)

\* the objects that the call of c resolved for the i-th value and handed out
ResolvedBy(c, i) == {v \in ValuesFor(c, i) : v.kind = "obj"}

\* the call of c has written the object it resolved into the i-th slot and
\* it is there, or the object of an overlapping call has taken its place
WrittenBy(c, i) ==
  \/ slots[i].kind = "obj" /\ slots[i].oid = NewOid(c, i)
  \/ /\ Overlapping(i)
     /\ \E d \in Callers \ {c} :
          slots[i].kind = "obj" /\ slots[i].oid = NewOid(d, i)

\* C12: when the attempt of a call on a reference is over, either the call
\* has handed out one object, the one it resolved, and has written that
\* object into the slot (where it is, unless an overlapping call has written
\* over it), or the call has handed out no object (null, a skipped entry or
\* a raised failure) and has not written the slot, which for a sole resolver
\* still holds the original reference.
C12_AtomicResolution ==
  \A c \in Callers :
    \A i \in DOMAIN slots :
      (calls[c].op \in Getters /\ Loaded(c, i) /\ Passed(c, i)) =>
        \/ /\ \E v \in ResolvedBy(c, i) :
                ResolvedBy(c, i) = {v} /\ v.oid = NewOid(c, i)
           /\ WrittenBy(c, i)
           /\ OnlyResolver(c) => ResolvedBy(c, i) = {slots[i]}
           /\ ~(calls[c].raised # "" /\ calls[c].i = i)
        \/ /\ ResolvedBy(c, i) = {}
           /\ ~(slots[i].kind = "obj" /\ slots[i].oid = NewOid(c, i))
           /\ OnlyResolver(c) => slots[i] = Ref(SlotUrl(i))

\* one call has resolved the first reference, which now holds the object it
\* returned; the attempt of another call on the second reference has ended
\* with a raised failure, and the second value is still the reference
C12_Witness ==
  /\ Len(slots) = 2
  /\ calls[1].op = "getSingular"
  /\ calls[1].pc = "done"
  /\ Resolved(1, 1)
  /\ calls[1].out = <<Produced(1, slots[1])>>
  /\ calls[2].op = "getPlural"
  /\ calls[2].pc = "done"
  /\ calls[2].raised # ""
  /\ calls[2].i = 2
  /\ Loaded(2, 2)
  /\ ValuesFor(2, 2) = {}
  /\ slots[2] = Ref(SlotUrl(2))

\* the identity of a value: the URL of a reference, the id of an object
\* (null when the object has none)
IdentityOf(v) ==
  IF v.kind = "url" THEN v
  ELSE IF v.id = "" THEN NullValue
  ELSE Ref(v.id)

\* the slots whose value has an identity, and the n-th of them
Identified == {k \in DOMAIN slots : IdentityOf(slots[k]) # NullValue}
NthIdentified(n) ==
  CHOOSE k \in Identified : Cardinality({j \in Identified : j < k}) = n - 1

\* C13: a call of <singular>Id or <singular>Ids ends at once without a loader
\* invocation, a span or a change of any slot; <singular>Id returns null on
\* an empty property, the URL of a reference and the id of an object in the
\* first slot; <singular>Ids returns, in slot order, the URL of every
\* reference and the id of every object (an object without id has none).
C13_IdentityAccessorsPure ==
  [][\A c \in Callers :
       (calls[c].pc = "idle" /\ calls[c].op' \in IdAccessors) =>
         LET out == calls[c].out'
         IN  /\ slots' = slots
             /\ cachedJsonLd' = cachedJsonLd
             /\ loaderCalls' = loaderCalls
             /\ spans' = spans
             /\ calls[c].pc' = "done"
             /\ calls[c].raised' = ""
             /\ calls[c].op' = "singularId" =>
                  /\ Len(out) = 1
                  /\ out[1].val = IF Len(slots) = 0 THEN NullValue
                                  ELSE IdentityOf(slots[1])
             /\ calls[c].op' = "singularIds" =>
                  /\ Len(out) = Cardinality(Identified)
                  /\ \A n \in DOMAIN out :
                       out[n].val = IdentityOf(slots[NthIdentified(n)])]_vars

\* <singular>Id has returned the id of the object in the first slot, and
\* <singular>Ids that id and the URL of the reference in the second slot;
\* neither call invoked the loader
C13_Witness ==
  /\ Len(slots) = 2
  /\ slots[1].kind = "obj"
  /\ slots[2].kind = "url"
  /\ calls[1].op = "singularId"
  /\ calls[1].out = <<Produced(1, Ref(slots[1].id))>>
  /\ calls[2].op = "singularIds"
  /\ calls[2].pc = "done"
  /\ calls[2].out = <<Produced(1, Ref(slots[1].id)), Produced(2, slots[2])>>
  /\ loaderCalls = [c \in Callers |-> <<>>]

\* C14: a resolving call does not invoke the loader for a reference at whose
\* property and position the retained source document holds a fragment with
\* its own @context; the call parses that fragment.
C14_ShortcutForReference ==
  \A c \in Callers :
    calls[c].op \in Getters =>
      \A i \in DOMAIN slots : CachedFragment(i).ctx => ~Loaded(c, i)

\* the accessor of the call of c is not waiting to resume from an attempt
\* that has settled (property.ts:185-186, 241-243)
Resumed(c) == calls[c].pc # "fetched"

\* the loader invocation of the call of c for the i-th value was cancelled
\* and the accessor has resumed from the attempt
Cancelled(c, i) ==
  /\ Resumed(c)
  /\ \E n \in DOMAIN spans[c] :
       spans[c][n].i = i /\ spans[c][n].message = "AbortError"

\* C15: when the loader invocation of a call is cancelled, the call raises
\* the cancellation, with suppressError too, hands out nothing for that
\* value (no null, no later entry) and does not store anything in the slot.
C15_CancellationRaised ==
  \A c \in Callers :
    \A i \in DOMAIN slots :
      Cancelled(c, i) =>
        /\ calls[c].raised = "AbortError"
        /\ calls[c].pc = "done"
        /\ calls[c].i = i
        /\ ValuesFor(c, i) = {}
        /\ slots[i].oid # NewOid(c, i)

\* the load or the parse of a loaded document failed in the call of c: the
\* span of the attempt has ended without an object, and the accessor has
\* resumed from the attempt
LoadOrParseFailed(c) ==
  /\ Resumed(c)
  /\ \E n \in DOMAIN spans[c] :
       spans[c][n].ends > 0 /\ spans[c][n].objectType = ""

\* C20: a resolving call with suppressError raises nothing, whether the
\* document it parses came from the loader or from the retained source
\* document; a resolving call without suppressError raises the failure of
\* its load or parse.
C20_SuppressErrorSuppresses ==
  \A c \in Callers :
    calls[c].op \in Getters =>
      /\ calls[c].suppressError => calls[c].raised = ""
      /\ (~calls[c].suppressError /\ LoadOrParseFailed(c)) =>
           calls[c].raised # "" /\ calls[c].pc = "done"

\* C21: when two resolving calls overlap on a reference, each of them
\* invokes the loader for it once (twice in all) and each hands out the
\* object it resolved itself; a call that comes to store writes its object
\* into the slot over whatever the other call has written; once both calls
\* are through with the value, the slot holds the reference if neither
\* resolved it and otherwise an object that one of the two handed out.
C21_LastWriterWins ==
  /\ [](\A i \in DOMAIN slots :
          Overlapping(i) =>
            /\ \A c \in Callers :
                 /\ Cardinality({n \in DOMAIN loaderCalls[c] :
                                   loaderCalls[c][n].i = i}) = 1
                 /\ \A v \in ResolvedBy(c, i) : v.oid = NewOid(c, i)
                 /\ Cardinality(ResolvedBy(c, i)) <= 1
            /\ (\A c \in Callers : Passed(c, i)) =>
                 IF \A c \in Callers : ResolvedBy(c, i) = {}
                   THEN slots[i] = Ref(SlotUrl(i))
                   ELSE slots[i] \in UNION {ResolvedBy(c, i) : c \in Callers})
  /\ [][\A c \in Callers :
          (calls[c].pc = "fetched" /\ calls[c].pc' = "stored") =>
            /\ slots'[calls[c].i] = calls[c].fetched
            /\ slots'[calls[c].i].oid = NewOid(c, calls[c].i)]_vars

\* two calls that overlapped on the first reference have both ended, each
\* with the object it resolved itself; the slot holds the object of the
\* first call, which wrote after the second
C21_Witness ==
  /\ Overlapping(1)
  /\ calls[1].pc = "done"
  /\ calls[2].pc = "done"
  /\ Len(loaderCalls[1]) + Len(loaderCalls[2]) = 2
  /\ \E v \in ResolvedBy(1, 1) : v.oid = NewOid(1, 1) /\ slots[1] = v
  /\ \E v \in ResolvedBy(2, 1) : v.oid = NewOid(2, 1) /\ slots[1] # v

\* the attempt that the n-th span of the call of c records is over
AttemptOver(c, n) ==
  n < Len(spans[c]) \/ calls[c].pc \notin {"loading", "parsing"}

\* C22: a call starts one span per loader invocation; the span of an attempt
\* that is over has been ended once, no span is ended twice, and an ended
\* span carries either the id and the type of the resolved object or the
\* error status with the failure as its message.
C22_SpanPerAttempt ==
  \A c \in Callers :
    /\ Len(spans[c]) = Len(loaderCalls[c])
    /\ \A n \in DOMAIN spans[c] :
         /\ spans[c][n].i = loaderCalls[c][n].i
         /\ spans[c][n].url = loaderCalls[c][n].url
         /\ spans[c][n].ends = IF AttemptOver(c, n) THEN 1 ELSE 0
         /\ AttemptOver(c, n) =>
              \/ /\ spans[c][n].objectType # ""
                 /\ spans[c][n].objectId # ""
                 /\ spans[c][n].status = "UNSET"
              \/ /\ spans[c][n].objectType = ""
                 /\ spans[c][n].status = "ERROR"
                 /\ spans[c][n].message # ""

\* this step writes the i-th slot: a call that invoked the loader with the
\* URL of that slot and has resumed from its attempt puts the object made of
\* the document it got there, in
\* place of the reference or, in a race, of the object that an overlapping
\* call resolved
ResolvingWrite(i) ==
  /\ slots'[i].kind = "obj"
  /\ \E c \in Callers :
       /\ calls[c].pc = "fetched"
       /\ calls[c].i = i
       /\ \E n \in DOMAIN loaderCalls[c] :
            loaderCalls[c][n] = [i |-> i, url |-> SlotUrl(i)]
       /\ slots'[i] = calls[c].fetched
       /\ slots'[i].oid = NewOid(c, i)
       /\ slots'[i].id = calls[c].document.id
       /\ slots'[i].type \in RangeOf(Range)
       /\ IF slots[i].kind = "url"
            THEN slots[i] = Ref(SlotUrl(i))
            ELSE /\ Overlapping(i)
                 /\ \E d \in Callers \ {c} : slots[i].oid = NewOid(d, i)

\* C23: in every step of any interleaving of accessor calls the list of
\* slots keeps its length, at most one slot changes and the others keep their
\* places, a slot changes only by the write of a resolved object in place of
\* the reference (or of the object of an overlapping call), and a slot that
\* holds an object does not hold a reference afterwards.
C23_SlotWrites ==
  [][/\ Len(slots') = Len(slots)
     /\ \A i \in DOMAIN slots :
          /\ slots'[i] # slots[i] =>
               /\ ResolvingWrite(i)
               /\ \A j \in DOMAIN slots \ {i} : slots'[j] = slots[j]
          /\ slots[i].kind = "obj" => slots'[i].kind = "obj"]_vars

\* after <singular>Ids and a get<Plural> that has resolved the first of two
\* references and failed on the second: the first slot holds the resolved
\* object, the second still its reference
C23_Witness ==
  /\ Len(slots) = 2
  /\ calls[1].op = "singularIds"
  /\ calls[1].out = <<Produced(1, Ref(SlotUrl(1))), Produced(2, Ref(SlotUrl(2)))>>
  /\ calls[2].op = "getPlural"
  /\ calls[2].pc = "done"
  /\ slots[1].kind = "obj"
  /\ slots[1].oid = NewOid(2, 1)
  /\ Loaded(2, 2)
  /\ slots[2] = Ref(SlotUrl(2))

\* ========================================================================
\* Claims about #<singular>_fromJsonLd (checked under SpecParse)
\* ========================================================================

\* the places of the range that hold a candidate type, and those of them
\* whose parser does not answer the document with a TypeError
CandidatePlaces == {k \in DOMAIN parseProperty.range : parseProperty.range[k] \in Types}
DecisivePlaces == {k \in CandidatePlaces : parseJsonLd.parse[k] # "TypeError"}

\* the places whose parser was called are the candidate places up to last,
\* in the order of the range
TriedUpTo(last) ==
  /\ \A m, n \in DOMAIN parseResult.tried :
       m < n => parseResult.tried[m] < parseResult.tried[n]
  /\ RangeOf(parseResult.tried) = {k \in CandidatePlaces : k <= last}

\* C19: #<singular>_fromJsonLd calls the parsers of the candidate types in
\* the order of the range up to the first one that does not answer with a
\* TypeError and no further: if that one accepts, the result is its instance;
\* if it fails otherwise, that failure is the outcome; if every candidate
\* answers with a TypeError, the outcome is a TypeError that names the type of
\* every candidate tried. On the range Person, Service this is the outcome of
\* the parse step of the resolving accessors.
C19_CandidatesInOrder ==
  parseResult.settled =>
    /\ IF DecisivePlaces = {}
         THEN /\ ~parseResult.ok
              /\ parseResult.error = "TypeError"
              /\ TriedUpTo(Len(parseProperty.range))
              /\ \A k \in CandidatePlaces :
                   parseProperty.range[k] \in RangeOf(parseResult.named)
         ELSE LET first == CHOOSE k \in DecisivePlaces :
                             \A j \in DecisivePlaces : k <= j
              IN  /\ TriedUpTo(first)
                  /\ IF parseJsonLd.parse[first] = "ok"
                       THEN /\ parseResult.ok
                            /\ parseResult.type = parseProperty.range[first]
                            /\ parseResult.error = ""
                       ELSE /\ ~parseResult.ok
                            /\ parseResult.error = parseJsonLd.parse[first]
                            /\ parseResult.type = ""
    /\ parseProperty.range = Range =>
         /\ fromJsonLd(parseJsonLd).ok = parseResult.ok
         /\ fromJsonLd(parseJsonLd).type = parseResult.type
         /\ fromJsonLd(parseJsonLd).error = parseResult.error

\* a document that the first candidate answers with a TypeError and the
\* second accepts has been parsed to an instance of the second type
C19_Witness ==
  /\ parseResult.settled
  /\ Len(parseProperty.range) = 2
  /\ CandidatePlaces = {1, 2}
  /\ parseJsonLd.parse = <<"TypeError", "ok">>
  /\ parseResult.ok
  /\ parseResult.type = parseProperty.range[2]
  /\ parseResult.tried = <<1, 2>>

====
